---- MODULE Spec2Model ----
(***************************************************************************)
(* Model of lexogram/rhombix, src/components/Rhombohedron.tsx: the         *)
(* golden-ratio constants, the two vertex tables, createFaces (the face    *)
(* triangulation and its conversion to Float32Array) and Shape (scaling    *)
(* and assembly of the six Face descriptors).                              *)
(*                                                                         *)
(* JavaScript numbers are modelled as decimal fixed-point numbers: a Num   *)
(* is a sequence of NL limbs in base 10^4, least significant limb first,   *)
(* with FracLimbs limbs after the decimal point.  Limbs 1..NL-1 are in     *)
(* 0..Base-1 and the top limb carries the sign (a Base-complement form),   *)
(* so a Num n stands for  SUM n[i] * Base^(i-1-FracLimbs).                 *)
(* Float32Array elements are modelled exactly: a single-precision value is *)
(* the integer number of units of 2^-F32UnitExp it holds.                  *)
(*                                                                         *)
(* The state is what the module keeps (ACUTE, OBTUSE and the two vertex    *)
(* tables) and what the latest call of Shape was given and returned;       *)
(* firstFaces records, for each selector, the first result of createFaces. *)
(* The rotation and hover state of the Rhombohedron component play no part *)
(* in the meshes and are left out.                                         *)
(***************************************************************************)
EXTENDS Integers, Sequences, FiniteSets, TLC

VARIABLES
    ACUTE,            \* the module constant ACUTE: {H, Q}
    OBTUSE,           \* the module constant OBTUSE: {H, Q}
    ACUTE_VERTICES,   \* the shared vertex table of the acute solid
    OBTUSE_VERTICES,  \* the shared vertex table of the obtuse solid
    props,            \* the props of the latest Shape call, or NoProps
    faces,            \* what createFaces returned to the latest Shape call
    meshes,           \* what the latest Shape call returned: its Face elements
    outcome,          \* "idle" before any call, then how the latest call ended
    firstFaces        \* per selector, what createFaces returned the first time

vars == <<ACUTE, OBTUSE, ACUTE_VERTICES, OBTUSE_VERTICES,
          props, faces, meshes, outcome, firstFaces>>

FracLimbs == 4
Base == 10^4
NL == FracLimbs + 2

(***************************************************************************)
(* Arithmetic of JavaScript numbers ( + - * / on doubles).                 *)
(***************************************************************************)
\* carries propagated upward through limbs i..n of raw; the top limb keeps the sign
RECURSIVE Carry(_, _, _, _)
Carry(raw, i, n, c) ==
    LET t == raw[i] + c
    IN  IF i = n THEN <<t>>
        ELSE <<t % Base>> \o Carry(raw, i + 1, n, t \div Base)

Normalize(raw) == Carry(raw, 1, NL, 0)

NormalizeRem(raw) == Carry(raw, 1, NL + 1, 0)

Zero == [i \in 1..NL |-> 0]

FromInt(n) ==
    [i \in 1..NL |-> IF i = FracLimbs + 1 THEN n % Base
                     ELSE IF i = FracLimbs + 2 THEN n \div Base
                     ELSE 0]

One == FromInt(1)

IsNeg(a) == a[NL] < 0

IsZero(a) == \A i \in 1..NL : a[i] = 0

Add(a, b) == Normalize([i \in 1..NL |-> a[i] + b[i]])

Sub(a, b) == Normalize([i \in 1..NL |-> a[i] - b[i]])

Neg(a) == Normalize([i \in 1..NL |-> 0 - a[i]])

Abs(a) == IF IsNeg(a) THEN Neg(a) ELSE a

Less(a, b) == IsNeg(Sub(a, b))

Leq(a, b) == ~IsNeg(Sub(b, a))

\* sum of a[i] * b[k + 2 - i]: the limb products of weight Base^k (k from 0)
RECURSIVE Conv(_, _, _, _, _)
Conv(a, b, k, i, hi) ==
    IF i > hi THEN 0
    ELSE a[i] * b[k + 2 - i] + Conv(a, b, k, i + 1, hi)

ConvAt(a, b, k) ==
    LET lo == IF k + 1 > NL THEN k + 2 - NL ELSE 1
        hi == IF k + 1 > NL THEN NL ELSE k + 1
    IN  Conv(a, b, k, lo, hi)

\* limbs k >= FracLimbs of the exact product of two non-negative Nums: t is
\* the sum of weight Base^k with the carry from below
RECURSIVE MulCarry(_, _, _, _)
RECURSIVE MulEmit(_, _, _, _)
MulEmit(a, b, k, t) ==
    IF k = FracLimbs + NL - 1 THEN <<t>>
    ELSE IF k < FracLimbs THEN MulCarry(a, b, k + 1, t \div Base)
    ELSE <<t % Base>> \o MulCarry(a, b, k + 1, t \div Base)

MulCarry(a, b, k, c) == MulEmit(a, b, k, ConvAt(a, b, k) + c)

MulAbs(a, b) == MulCarry(a, b, 0, 0)

\* the magnitude p with the sign of the product or quotient of a and b
Signed(a, b, p) == IF IsNeg(a) = IsNeg(b) THEN p ELSE Neg(p)

Mul(a, b) == Signed(a, b, MulAbs(Abs(a), Abs(b)))

\* division of a non-negative Num by a small positive integer
RECURSIVE DivSmallFrom(_, _, _, _)
DivSmallFrom(a, n, i, rem) ==
    LET t == rem * Base + a[i]
    IN  IF i = 1 THEN <<t \div n>>
        ELSE DivSmallFrom(a, n, i - 1, t % n) \o <<t \div n>>

DivSmall(a, n) ==
    IF IsNeg(a) THEN Neg(DivSmallFrom(Neg(a), n, NL, 0))
    ELSE DivSmallFrom(a, n, NL, 0)

\* the index of the top non-zero limb of a non-negative, non-zero Num
TopLimb(b) == CHOOSE k \in 1..NL : b[k] # 0 /\ \A j \in k + 1..NL : b[j] = 0

\* rem - q * b as a limb vector of NL + 1 limbs
RemMinus(rem, b, q) ==
    NormalizeRem([i \in 1..NL + 1 |-> rem[i] - (IF i <= NL THEN q * b[i] ELSE 0)])

\* the quotient digit: the largest q, at most the estimate given, with q * b <= rem
RECURSIVE FixDigit(_, _, _)
FixDigit(rem, b, q) ==
    IF RemMinus(rem, b, q)[NL + 1] < 0 THEN FixDigit(rem, b, q - 1) ELSE q

\* long division of a * Base^FracLimbs by b, limb vectors with b's top limb
\* kb at least Base/2; j runs over the limbs of the numerator from the top,
\* and so do the digits returned.  r1 is the remainder with the next limb
\* shifted in, est the digit estimated from its top two limbs, d the digit.
RECURSIVE DivFrom(_, _, _, _, _)
RECURSIVE DivEmit(_, _, _, _, _, _)
DivEmit(a, b, kb, j, r1, d) ==
    IF j = 1 THEN <<d>>
    ELSE <<d>> \o DivFrom(a, b, kb, j - 1, RemMinus(r1, b, d))

DivEstimate(r1, b, kb) ==
    LET est == (r1[kb + 1] * Base + r1[kb]) \div b[kb]
    IN  IF est > Base - 1 THEN Base - 1 ELSE est

DivDigit(a, b, kb, j, r1) ==
    DivEmit(a, b, kb, j, r1, FixDigit(r1, b, DivEstimate(r1, b, kb)))

DivFrom(a, b, kb, j, rem) ==
    DivDigit(a, b, kb, j,
             [i \in 1..NL + 1 |->
                 IF i > 1 THEN rem[i - 1]
                 ELSE IF j > FracLimbs THEN a[j - FracLimbs] ELSE 0])

\* the digits of DivFrom as a Num
DivResult(q) == [i \in 1..NL |-> q[NL + FracLimbs + 2 - i]]

\* a / b for non-negative a and positive b, truncated: both are first scaled
\* by f so that the top limb kb of the divisor is at least Base/2
DivScaled(a, b, kb, f) ==
    DivResult(DivFrom(NormalizeRem([i \in 1..NL + 1 |-> IF i <= NL THEN a[i] * f ELSE 0]),
                      Normalize([i \in 1..NL |-> b[i] * f]),
                      kb, NL + 1 + FracLimbs, [i \in 1..NL + 1 |-> 0]))

DivTop(a, b, kb) == DivScaled(a, b, kb, Base \div (b[kb] + 1))

DivAbs(a, b) == DivTop(a, b, TopLimb(b))

Div(a, b) == Signed(a, b, DivAbs(Abs(a), Abs(b)))

Half(a) == DivSmall(a, 2)

(***************************************************************************)
(* The Math library functions the module calls.                            *)
(***************************************************************************)
\* Math.PI: the double nearest to pi, 3.14159265358979311599796346854...
MathPIDigits == <<3, 1415, 9265, 3589, 7931, 1599, 7963, 4685, 4418, 5161, 5905, 7617, 1875>>

MathPI ==
    [i \in 1..NL |-> IF i = NL THEN 0
                     ELSE IF NL - i <= Len(MathPIDigits) THEN MathPIDigits[NL - i]
                     ELSE 0]

\* Math.sqrt(a), a >= 0: Newton's iteration downward from a + 1
RECURSIVE SqrtIter(_, _)
RECURSIVE SqrtNext(_, _, _)
SqrtNext(a, y, y1) == IF Less(y1, y) THEN SqrtIter(a, y1) ELSE y

SqrtIter(a, y) == SqrtNext(a, y, Half(Add(y, Div(a, y))))

Sqrt(a) == IF IsZero(a) THEN Zero ELSE SqrtIter(a, Add(a, One))

\* sum of the series t - t*x2/(n(n+1)) + ..., the terms of sine and cosine
RECURSIVE TrigSeries(_, _, _)
TrigSeries(x2, t, n) ==
    IF IsZero(t) THEN Zero
    ELSE Sub(t, TrigSeries(x2, DivSmall(Mul(t, x2), n * (n + 1)), n + 2))

\* Math.sin(x) and Math.cos(x) for |x| of a few units
Sin(x) == TrigSeries(Mul(x, x), x, 2)

Cos(x) == TrigSeries(Mul(x, x), One, 1)

\* sum of the series p/n - p*x2/(n+2) + ..., the terms of the arctangent
RECURSIVE AtanSeries(_, _, _)
AtanSeries(x2, p, n) ==
    IF IsZero(p) THEN Zero
    ELSE Sub(DivSmall(p, n), AtanSeries(x2, Mul(p, x2), n + 2))

\* atan(x) = 2 atan(x / (1 + sqrt(1 + x^2)))
AtanHalve(x) == Div(x, Add(One, Sqrt(Add(One, Mul(x, x)))))

\* Math.atan(x): three halvings of the argument, then the series
AtanReduced(y) == Mul(FromInt(8), AtanSeries(Mul(y, y), y, 1))

Atan(x) == AtanReduced(AtanHalve(AtanHalve(AtanHalve(x))))

(***************************************************************************)
(* The golden-ratio constants (lines 166-173) and the two variants.        *)
(***************************************************************************)
PHI == Half(Add(One, Sqrt(FromInt(5))))

THETA == Atan(PHI)

GAMMA == Sub(Half(MathPI), THETA)

ALPHA == Mul(GAMMA, FromInt(2))

Y == Sin(THETA)

X == Cos(THETA)

BE == Cos(ALPHA)

\* Acute
\* faulty variant: the sine of GAMMA taken for its cosine
BT_Sin == Div(BE, Sin(GAMMA))

BT == Div(BE, Cos(GAMMA))

\* faulty variant: Q taken as BT instead of BT / 2
AcuteDimsFullQ(bt) == [H |-> Sqrt(Sub(One, Mul(bt, bt))), Q |-> bt]

AcuteDims(bt) == [H |-> Sqrt(Sub(One, Mul(bt, bt))), Q |-> Half(bt)]

ACUTE_INIT == AcuteDims(BT)

\* Obtuse
AT == Div(BE, Y)

ObtuseDims(at, cosTheta) ==
    [H |-> Sqrt(Sub(One, Mul(at, at))), Q |-> Sub(cosTheta, Half(at))]

OBTUSE_INIT == ObtuseDims(AT, X)

(***************************************************************************)
(* Float32Array storage.  A stored element is the integer number of units  *)
(* of 2^-25 it holds; this is exact for 0 and for every single-precision   *)
(* value of magnitude in [1/4, 64), which covers every coordinate of both  *)
(* solids under the integer scale factors of ScaleValues.                  *)
(***************************************************************************)
F32Bits == 24
F32UnitExp == 25

\* the number of low bits of n that do not fit in a 24-bit significand
RECURSIVE F32Shift(_)
F32Shift(n) == IF n < 2^F32Bits THEN 0 ELSE 1 + F32Shift(n \div 2)

\* n + f units, n >= 0 and f a fraction of class fcls (0: f = 0, 1: f < 1/2,
\* 2: f = 1/2, 3: f > 1/2), rounded to nearest, ties to the even significand
RoundF32(n, fcls) ==
    LET s == F32Shift(n)
        q == n \div 2^s
        r == n % 2^s
        h == IF s = 0 THEN 0 ELSE 2^(s - 1)
        up == IF s = 0 THEN fcls = 3 ELSE r > h \/ (r = h /\ fcls > 0)
        tie == IF s = 0 THEN fcls = 2 ELSE r = h /\ fcls = 0
        inc == IF up \/ (tie /\ q % 2 = 1) THEN 1 ELSE 0
    IN  (q + inc) * 2^s

\* a Num times a small non-negative integer
MulSmall(a, n) == Normalize([i \in 1..NL |-> a[i] * n])

\* the class of the fraction of a non-negative Num
FracClass(t) ==
    LET top == t[FracLimbs]
        rest == \E i \in 1..FracLimbs - 1 : t[i] # 0
    IN  IF top = 0 /\ ~rest THEN 0
        ELSE IF top < Base \div 2 THEN 1
        ELSE IF top = Base \div 2 /\ ~rest THEN 2
        ELSE 3

\* the element stored for the number x: x rounded to single precision
Fround(x) ==
    LET t == MulSmall(MulSmall(Abs(x), 2^12), 2^(F32UnitExp - 12))
        n == t[FracLimbs + 1] + Base * t[FracLimbs + 2]
        m == RoundF32(n, FracClass(t))
    IN  IF IsNeg(x) THEN 0 - m ELSE m

\* the element stored for the integer number of units p (a product of a
\* stored element and an integer, which the double multiplication gives exactly)
FroundUnits(p) == IF p < 0 THEN 0 - RoundF32(0 - p, 0) ELSE RoundF32(p, 0)

\* the number a stored element reads back as
F32ToNum(m) ==
    LET a == FromInt(IF m < 0 THEN 0 - m ELSE m)
        v == DivSmall(DivSmall(a, 2^12), 2^(F32UnitExp - 12))
    IN  IF m < 0 THEN Neg(v) ELSE v

(***************************************************************************)
(* The vertex tables (lines 183-212), indexed 0..7 as in the source.       *)
(***************************************************************************)
Vertices(rows) == [i \in 0..7 |-> rows[i + 1]]

\* the acute table for cx = X, sy = Y, Q = ACUTE.Q and H2 = ACUTE.H / 2
AcuteRows(cx, sy, Q, H2) == Vertices(<<
    << cx,      Q,                Neg(H2) >>,  \* A: 0
    << Zero,    Add(Q, sy),       Neg(H2) >>,  \* B: 1
    << Neg(cx), Q,                Neg(H2) >>,  \* C: 2
    << Zero,    Sub(Q, sy),       Neg(H2) >>,  \* D: 3
    << cx,      Neg(Q),           H2 >>,       \* S: 4
    << Zero,    Add(Neg(Q), sy),  H2 >>,       \* T: 5
    << Neg(cx), Neg(Q),           H2 >>,       \* U: 6
    << Zero,    Sub(Neg(Q), sy),  H2 >> >>)    \* V: 7

AcuteTable(dims) == AcuteRows(X, Y, dims.Q, Half(dims.H))

ACUTE_VERTICES_INIT == AcuteTable(ACUTE_INIT)

\* the obtuse table for cx = X, sy = Y, Q = OBTUSE.Q and H2 = OBTUSE.H / 2
ObtuseRows(cx, sy, Q, H2) == Vertices(<<
    << Add(Q, cx),      Zero,    Neg(H2) >>,   \* A: 0
    << Q,               sy,      Neg(H2) >>,   \* B: 1
    << Sub(Q, cx),      Zero,    Neg(H2) >>,   \* C: 2
    << Q,               Neg(sy), Neg(H2) >>,   \* D: 3
    << Add(Neg(Q), cx), Zero,    H2 >>,        \* T: 4
    << Neg(Q),          sy,      H2 >>,        \* U: 5
    << Sub(Neg(Q), cx), Zero,    H2 >>,        \* V: 6
    << Neg(Q),          Neg(sy), H2 >> >>)     \* S: 7

ObtuseTable(dims) == ObtuseRows(X, Y, dims.Q, Half(dims.H))

OBTUSE_VERTICES_INIT == ObtuseTable(OBTUSE_INIT)

(***************************************************************************)
(* createFaces (lines 214-251).                                            *)
(***************************************************************************)
\* faulty variant: the first triangle of face 1 wound the other way (BCA)
AcuteFaceArrayReversed(vt) == <<
    vt[1] \o vt[2] \o vt[0] \o vt[3] \o vt[2] \o vt[0],
    vt[1] \o vt[2] \o vt[5] \o vt[6] \o vt[5] \o vt[2],
    vt[1] \o vt[5] \o vt[0] \o vt[4] \o vt[0] \o vt[5],
    vt[7] \o vt[3] \o vt[4] \o vt[0] \o vt[4] \o vt[3],
    vt[7] \o vt[6] \o vt[3] \o vt[2] \o vt[3] \o vt[6],
    vt[7] \o vt[4] \o vt[6] \o vt[5] \o vt[6] \o vt[4] >>

\* the acute faceArray: the spread vertices of the two triangles of each face
AcuteFaceArray(vt) == <<
    vt[1] \o vt[0] \o vt[2] \o     \* face 1.1 BAC
    vt[3] \o vt[2] \o vt[0],       \* face 1.2 DCA
    vt[1] \o vt[2] \o vt[5] \o     \* face 2.1 BCT
    vt[6] \o vt[5] \o vt[2],       \* face 2.2 UTC
    vt[1] \o vt[5] \o vt[0] \o     \* face 3   BTA
    vt[4] \o vt[0] \o vt[5],       \*          SAT
    vt[7] \o vt[3] \o vt[4] \o     \* face 4   VDS
    vt[0] \o vt[4] \o vt[3],       \*          ASD
    vt[7] \o vt[6] \o vt[3] \o     \* face 5   VUD
    vt[2] \o vt[3] \o vt[6],       \*          CDU
    vt[7] \o vt[4] \o vt[6] \o     \* face 6   VSU
    vt[5] \o vt[6] \o vt[4] >>     \*          TUS

\* faulty variant: the second triangle of face 1 names B instead of D (CAB)
ObtuseFaceArrayRepeated(vt) == <<
    vt[2] \o vt[1] \o vt[0] \o vt[2] \o vt[0] \o vt[1],
    vt[2] \o vt[5] \o vt[1] \o vt[2] \o vt[6] \o vt[5],
    vt[3] \o vt[7] \o vt[2] \o vt[6] \o vt[2] \o vt[7],
    vt[4] \o vt[3] \o vt[0] \o vt[4] \o vt[7] \o vt[3],
    vt[4] \o vt[1] \o vt[5] \o vt[4] \o vt[0] \o vt[1],
    vt[4] \o vt[5] \o vt[6] \o vt[4] \o vt[6] \o vt[7] >>

\* the obtuse faceArray
ObtuseFaceArray(vt) == <<
    vt[2] \o vt[1] \o vt[0] \o     \* face 1.1 CBA
    vt[2] \o vt[0] \o vt[3],       \* face 1.2 CAD
    vt[2] \o vt[5] \o vt[1] \o     \* face 2.1 CUB
    vt[2] \o vt[6] \o vt[5],       \* face 2.2 CVU
    vt[3] \o vt[7] \o vt[2] \o     \* face 3   DSC
    vt[6] \o vt[2] \o vt[7],       \*          VCS
    vt[4] \o vt[3] \o vt[0] \o     \* face 4   TDA
    vt[4] \o vt[7] \o vt[3],       \*          TSD
    vt[4] \o vt[1] \o vt[5] \o     \* face 5   TBU
    vt[4] \o vt[0] \o vt[1],       \*          TAB
    vt[4] \o vt[5] \o vt[6] \o     \* face 6   TUV
    vt[4] \o vt[6] \o vt[7] >>     \*          TVS

\* new Float32Array(face): every number of the face stored in single precision
RECURSIVE Float32From(_, _)
Float32From(face, j) ==
    IF j > Len(face) THEN <<>>
    ELSE <<Fround(face[j])>> \o Float32From(face, j + 1)

Float32Array(face) == Float32From(face, 1)

\* faulty variant: every selector but "OBTUSE" taken as acute
IsNotObtuse(shape) == shape # "OBTUSE"

IsAcute(shape) == shape = "ACUTE"

createFaces(shape) ==
    LET isAcute == IsAcute(shape)
        vt == IF isAcute THEN ACUTE_VERTICES ELSE OBTUSE_VERTICES
        faceArray == IF isAcute THEN AcuteFaceArray(vt) ELSE ObtuseFaceArray(vt)
    IN  << Float32Array(faceArray[1]), Float32Array(faceArray[2]),
           Float32Array(faceArray[3]), Float32Array(faceArray[4]),
           Float32Array(faceArray[5]), Float32Array(faceArray[6]) >>

(***************************************************************************)
(* Face (lines 259-280) and Shape (lines 283-300).                         *)
(***************************************************************************)
\* the value undefined, told apart from every colour (colours are 0 or more)
Undefined == -1

\* faulty variant: the colour one place further on
ColorAtNext(colors, ii) ==
    IF ii + 2 \in DOMAIN colors THEN colors[ii + 2] ELSE Undefined

\* faulty variant: the colours reused from the start when the list runs out
ColorAtWrapped(colors, ii) == colors[(ii % Len(colors)) + 1]

\* colors[ii] of a JavaScript array, ii counted from 0
ColorAt(colors, ii) ==
    IF ii + 1 \in DOMAIN colors THEN colors[ii + 1] ELSE Undefined

\* the mesh a Face element describes
Face(key, color, position, buffer) ==
    [key |-> key, position |-> position, array |-> buffer,
     itemSize |-> 3, count |-> 6, color |-> color, flatShading |-> TRUE]

\* faulty variant: the position offset added to the scaled vertices
ScaleFaceTranslated(face, scale, position) ==
    [j \in 1..Len(face) |->
        FroundUnits(face[j] * scale + position[((j - 1) % 3) + 1] * 2^F32UnitExp)]

\* face.map(vertex => vertex * scale) on a Float32Array: each product is
\* stored back in single precision; the position goes to Face, not in here
ScaleFace(face, scale, position) ==
    [j \in 1..Len(face) |-> FroundUnits(face[j] * scale)]

\* the elements Shape returns for the faces createFaces gave it
ShapeElements(pr, made) ==
    LET scaled == [f \in 1..Len(made) |-> ScaleFace(made[f], pr.scale, pr.position)]
    IN  [f \in 1..Len(scaled) |->
            Face(f - 1, ColorAt(pr.colors, f - 1), pr.position, scaled[f])]

NoProps == [shape |-> "", scale |-> 0, colors |-> <<>>, position |-> <<>>]

\* faulty variant: the scaling also written into the shared vertex tables
ScaledTable(vt, scale) ==
    [i \in 0..7 |-> <<MulSmall(vt[i][1], scale), MulSmall(vt[i][2], scale),
                      MulSmall(vt[i][3], scale)>>]

ShapeReturnsInPlace(pr, made) ==
    /\ props' = pr
    /\ faces' = made
    /\ meshes' = ShapeElements(pr, made)
    /\ outcome' = "returned"
    /\ firstFaces' = IF firstFaces[pr.shape] = <<>>
                     THEN [firstFaces EXCEPT ![pr.shape] = made]
                     ELSE firstFaces
    /\ ACUTE_VERTICES' = ScaledTable(ACUTE_VERTICES, pr.scale)
    /\ OBTUSE_VERTICES' = ScaledTable(OBTUSE_VERTICES, pr.scale)
    /\ UNCHANGED <<ACUTE, OBTUSE>>

\* one call of Shape(pr), made being what its call of createFaces returns
ShapeReturns(pr, made) ==
    /\ props' = pr
    /\ faces' = made
    /\ meshes' = ShapeElements(pr, made)
    /\ outcome' = "returned"
    /\ firstFaces' = IF firstFaces[pr.shape] = <<>>
                     THEN [firstFaces EXCEPT ![pr.shape] = made]
                     ELSE firstFaces
    /\ UNCHANGED <<ACUTE, OBTUSE, ACUTE_VERTICES, OBTUSE_VERTICES>>

Shape(pr) == ShapeReturns(pr, createFaces(pr.shape))

(***************************************************************************)
(* The calls the model makes.  Rhombohedron (lines 303-352) renders Shape  *)
(* with scale 5, AppColors and the positions [4,0,0] and [-4,0,0]; the     *)
(* other values exercise the remaining cases of the props.                 *)
(***************************************************************************)
AppColors == <<16711680, 16776960, 65280, 65535, 255, 16711935>>

ShapeValues == {"ACUTE", "OBTUSE", "CUBE"}

ScaleValues == {1, 5}

ColorLists == {AppColors,
               <<255, 65280, 16711680, 16711935, 65535, 16776960>>,
               SubSeq(AppColors, 1, 5)}

PositionValues == {<<4, 0, 0>>, <<-4, 0, 0>>}

Init ==
    /\ ACUTE = ACUTE_INIT
    /\ OBTUSE = OBTUSE_INIT
    /\ ACUTE_VERTICES = AcuteTable(ACUTE)
    /\ OBTUSE_VERTICES = ObtuseTable(OBTUSE)
    /\ props = NoProps
    /\ faces = <<>>
    /\ meshes = <<>>
    /\ outcome = "idle"
    /\ firstFaces = [s \in ShapeValues |-> <<>>]

\* Shape called with any of the props
ShapeCall ==
    \E shape \in ShapeValues, scale \in ScaleValues,
       colors \in ColorLists, position \in PositionValues :
        Shape([shape |-> shape, scale |-> scale,
               colors |-> colors, position |-> position])

Next == ShapeCall

Spec == Init /\ [][Next]_vars

(***************************************************************************)
(* Reading the geometry back from the stored buffers.                      *)
(***************************************************************************)
Variants == {"ACUTE", "OBTUSE"}

Returned == outcome = "returned"

\* 10^-3, 10^-5 and 10^-9
Milli == DivSmall(One, 1000)

GoldenTol == DivSmall(DivSmall(One, 1000), 100)

Nano == DivSmall(DivSmall(DivSmall(One, 1000), 1000), 1000)

\* the decimal n / 10^4
Decimal4(n) == DivSmall(FromInt(n), 10000)

Near(a, b, tol) == Leq(Abs(Sub(a, b)), tol)

VSub(p, q) == <<Sub(p[1], q[1]), Sub(p[2], q[2]), Sub(p[3], q[3])>>

Dot(p, q) == Add(Add(Mul(p[1], q[1]), Mul(p[2], q[2])), Mul(p[3], q[3]))

Cross(p, q) == <<Sub(Mul(p[2], q[3]), Mul(p[3], q[2])),
                 Sub(Mul(p[3], q[1]), Mul(p[1], q[3])),
                 Sub(Mul(p[1], q[2]), Mul(p[2], q[1]))>>

Dist2(p, q) == Dot(VSub(p, q), VSub(p, q))

\* the k-th vertex (k from 0) of a face buffer, as stored and as numbers
Point(buffer, k) == <<buffer[3 * k + 1], buffer[3 * k + 2], buffer[3 * k + 3]>>

PointNum(pt) == <<F32ToNum(pt[1]), F32ToNum(pt[2]), F32ToNum(pt[3])>>

Triangle(buffer, t) == {Point(buffer, k) : k \in 3 * t..3 * t + 2}

FacePoints(buffer) == Triangle(buffer, 0) \cup Triangle(buffer, 1)

AllPoints == UNION {FacePoints(faces[f]) : f \in DOMAIN faces}

\* the sum of a set of stored points, and their mean as numbers
RECURSIVE SumPoints(_)
SumPoints(S) ==
    IF S = {} THEN <<0, 0, 0>>
    ELSE LET pt == CHOOSE pt \in S : TRUE
             rest == SumPoints(S \ {pt})
         IN  <<pt[1] + rest[1], pt[2] + rest[2], pt[3] + rest[3]>>

Centroid(S) ==
    LET total == PointNum(SumPoints(S))
        n == Cardinality(S)
    IN  <<DivSmall(total[1], n), DivSmall(total[2], n), DivSmall(total[3], n)>>

\* the squared distance of the two points of a pair
PairDist2(S) ==
    LET pt == CHOOSE pt \in S : TRUE
        qt == CHOOSE qt \in S \ {pt} : TRUE
    IN  Dist2(PointNum(pt), PointNum(qt))

\* a vertex of a table as createFaces stores it
StoredVertex(vt, v) == <<Fround(vt[v][1]), Fround(vt[v][2]), Fround(vt[v][3])>>

TableOf(shape) == IF shape = "ACUTE" THEN ACUTE_VERTICES ELSE OBTUSE_VERTICES

(***************************************************************************)
(* C1.                                                                     *)
(***************************************************************************)
\* the two triangles of a face share one diagonal; the other diagonal joins
\* the two vertices they do not share
SharedPair(buffer) == Triangle(buffer, 0) \cap Triangle(buffer, 1)

ApartPair(buffer) == FacePoints(buffer) \ SharedPair(buffer)

IsGoldenRhombus(buffer) ==
    LET d1 == PairDist2(SharedPair(buffer))
        d2 == PairDist2(ApartPair(buffer))
        long2 == IF Less(d1, d2) THEN d2 ELSE d1
        short2 == IF Less(d1, d2) THEN d1 ELSE d2
    IN  /\ Cardinality(FacePoints(buffer)) = 4
        /\ Cardinality(SharedPair(buffer)) = 2
        /\ Cardinality(ApartPair(buffer)) = 2
        /\ \A pt \in SharedPair(buffer), qt \in ApartPair(buffer) :
               Near(Dist2(PointNum(pt), PointNum(qt)), One, GoldenTol)
        /\ Near(long2, Mul(Mul(PHI, PHI), short2), GoldenTol)

\* C1: for both variants, every one of the 6 faces createFaces produces is a
\* golden rhombus: 4 distinct vertices, unit sides, diagonals in the ratio PHI
C1_AllFacesGolden ==
    (Returned /\ props.shape \in Variants) =>
        \A f \in 1..6 : IsGoldenRhombus(faces[f])

(***************************************************************************)
(* C2.                                                                     *)
(***************************************************************************)
\* triangle t (0 or 1) of a face is wound outward: the normal
\* (P1 - P0) x (P2 - P0) points away from the centroid of the solid
Outward(buffer, t) ==
    LET P0 == PointNum(Point(buffer, 3 * t))
        P1 == PointNum(Point(buffer, 3 * t + 1))
        P2 == PointNum(Point(buffer, 3 * t + 2))
        normal == Cross(VSub(P1, P0), VSub(P2, P0))
        out == VSub(Centroid(FacePoints(buffer)), Centroid(AllPoints))
    IN  Less(Zero, Dot(normal, out))

\* C2: for both variants, each of the 12 triangles createFaces returns has a
\* normal with a strictly positive dot product with the vector from the
\* centroid of the solid to the centroid of the triangle's face
C2_OutwardWinding ==
    (Returned /\ props.shape \in Variants) =>
        \A f \in 1..6 : \A t \in 0..1 : Outward(faces[f], t)

C2_Witness ==
    /\ Returned
    /\ props.shape = "OBTUSE"
    /\ Cardinality(AllPoints) = 8
    /\ Outward(faces[6], 1)

(***************************************************************************)
(* C3.                                                                     *)
(***************************************************************************)
\* the faces that reference vertex v of the table vt
FacesOf(vt, v) == {f \in 1..6 : StoredVertex(vt, v) \in FacePoints(faces[f])}

\* C3: for both variants, each of the 8 vertex indices 0..7 is referenced by
\* exactly 3 of the 6 faces, and each face references exactly 4 distinct
\* vertices
C3_VertexIncidence ==
    (Returned /\ props.shape \in Variants) =>
        LET vt == TableOf(props.shape)
        IN  /\ \A v \in 0..7 : Cardinality(FacesOf(vt, v)) = 3
            /\ \A f \in 1..6 :
                /\ Cardinality(FacePoints(faces[f])) = 4
                /\ FacePoints(faces[f]) \subseteq {StoredVertex(vt, v) : v \in 0..7}

C3_Witness ==
    /\ Returned
    /\ props.shape = "OBTUSE"
    /\ FacesOf(OBTUSE_VERTICES, 4) = {4, 5, 6}
    /\ FacesOf(OBTUSE_VERTICES, 2) = {1, 2, 3}

(***************************************************************************)
(* C4.                                                                     *)
(***************************************************************************)
\* the vertex indices of the faces of a variant, six to a face in the order
\* of the faceArray
IndexTable == [i \in 0..7 |-> <<i>>]

FaceIndices(shape) ==
    IF shape = "ACUTE" THEN AcuteFaceArray(IndexTable) ELSE ObtuseFaceArray(IndexTable)

\* the sides of a face: its vertex pairs other than the two diagonals
FaceEdges(idx) ==
    LET first == {idx[1], idx[2], idx[3]}
        second == {idx[4], idx[5], idx[6]}
        shared == first \cap second
        apart == (first \cup second) \ shared
    IN  {{a, b} : a \in shared, b \in apart}

Edges(shape) == UNION {FaceEdges(FaceIndices(shape)[f]) : f \in 1..6}

EdgeLength2(vt, e) ==
    LET a == CHOOSE a \in e : TRUE
        b == CHOOSE b \in e \ {a} : TRUE
    IN  Dist2(vt[a], vt[b])

\* length 1 within 10^-9, on the squares
UnitLength2(len2) ==
    /\ Leq(Mul(Sub(One, Nano), Sub(One, Nano)), len2)
    /\ Leq(len2, Mul(Add(One, Nano), Add(One, Nano)))

\* C4: for both variants, before scaling, all 12 edges of the solid have
\* length 1 within 1e-9, computed from ACUTE_VERTICES and OBTUSE_VERTICES
C4_UnitEdges ==
    \A shape \in Variants :
        /\ Cardinality(Edges(shape)) = 12
        /\ \A e \in Edges(shape) :
               Cardinality(e) = 2 /\ UnitLength2(EdgeLength2(TableOf(shape), e))

C4_Witness ==
    /\ Returned
    /\ {0, 1} \in Edges("ACUTE")
    /\ {2, 6} \in Edges("OBTUSE")
    /\ UnitLength2(EdgeLength2(OBTUSE_VERTICES, {2, 6}))

(***************************************************************************)
(* C5.                                                                     *)
(***************************************************************************)
\* C5: for any variant, scale, position and 6-element colour list, Shape
\* yields exactly 6 mesh descriptors in face order; descriptor i has a buffer
\* of exactly 18 numbers, the colour colors[i] and the supplied position
C5_SixDescriptors ==
    (Returned /\ Len(props.colors) = 6) =>
        /\ Len(meshes) = 6
        /\ \A i \in 1..6 :
            /\ meshes[i].key = i - 1
            /\ Len(meshes[i].array) = 18
            /\ meshes[i].itemSize * meshes[i].count = 18
            /\ meshes[i].array = ScaleFace(faces[i], props.scale, props.position)
            /\ meshes[i].color = props.colors[i]
            /\ meshes[i].position = props.position

C5_Witness ==
    /\ Returned
    /\ Len(props.colors) = 6
    /\ props.colors # AppColors
    /\ props.scale = 5
    /\ meshes[6].color = props.colors[6]
    /\ meshes[1].color # meshes[6].color

(***************************************************************************)
(* C6.                                                                     *)
(***************************************************************************)
AbsInt(n) == IF n < 0 THEN 0 - n ELSE n

\* m units is a single-precision value: a significand of at most 24 bits
IsF32(m) == \E e \in 0..7 : AbsInt(m) % 2^e = 0 /\ AbsInt(m) \div 2^e < 2^F32Bits

\* out is the single-precision value nearest to the product p, the one with
\* the even significand when p lies midway between two
NearestF32(out, p) ==
    LET d == AbsInt(out - p)
    IN  /\ IsF32(out)
        /\ \A c \in p - d..p + d :
               IsF32(c) => /\ AbsInt(c - p) = d
                           /\ (c # out => AbsInt(out) % (4 * d) = 0)

\* C6 as stated: scaling by k multiplies every one of the 18 coordinates of
\* every face buffer by exactly k
C6_ExactMultiple ==
    Returned =>
        \A f \in 1..6 : \A j \in 1..18 :
            meshes[f].array[j] = props.scale * faces[f][j]

\* C6 amended: every output coordinate is the single-precision value nearest
\* to k times the input coordinate at the same place (equal to it whenever
\* the product is a single-precision value), nothing is reordered, dropped or
\* translated, and with k = 1 the buffers equal the createFaces buffers
C6_NearestMultiple ==
    Returned =>
        \A f \in 1..6 :
            /\ Len(meshes[f].array) = 18
            /\ \A j \in 1..18 :
                   NearestF32(meshes[f].array[j], props.scale * faces[f][j])
            /\ (props.scale = 1 => meshes[f].array = faces[f])

C6_Witness ==
    /\ Returned
    /\ props.scale = 5
    /\ \E f \in 1..6 : \E j \in 1..18 :
           /\ ~IsF32(5 * faces[f][j])
           /\ meshes[f].array[j] # 5 * faces[f][j]

(***************************************************************************)
(* C7.                                                                     *)
(***************************************************************************)
\* C7 as stated: a selector other than "ACUTE" and "OBTUSE" makes the call
\* fail with an error and produce no faces
C7_UnknownFails ==
    (outcome # "idle" /\ props.shape \notin Variants) =>
        outcome = "threw" /\ faces = <<>>

\* C7 amended: a selector other than "ACUTE" is taken as "OBTUSE": the call
\* returns the six obtuse faces and raises no error
C7_UnknownIsObtuse ==
    (outcome # "idle" /\ props.shape # "ACUTE") =>
        /\ outcome = "returned"
        /\ Len(faces) = 6
        /\ faces = createFaces("OBTUSE")
        /\ faces # createFaces("ACUTE")

C7_Witness ==
    /\ Returned
    /\ props.shape \notin Variants
    /\ Len(faces) = 6
    /\ firstFaces["OBTUSE"] = faces

(***************************************************************************)
(* C8.                                                                     *)
(***************************************************************************)
\* C8 as stated: with fewer than 6 colours generation fails with an error
\* and returns no descriptors
C8_ShortListFails ==
    (outcome # "idle" /\ Len(props.colors) < 6) =>
        outcome = "threw" /\ meshes = <<>>

\* C8 amended: with fewer than 6 colours Shape still returns 6 descriptors;
\* descriptor i carries colors[i] while the list lasts and an undefined
\* colour after it, no colour being reused or wrapped, and no error is raised
C8_ShortListUndefined ==
    (outcome # "idle" /\ Len(props.colors) < 6) =>
        /\ outcome = "returned"
        /\ Len(meshes) = 6
        /\ \A i \in 1..6 :
               meshes[i].color = IF i <= Len(props.colors)
                                 THEN props.colors[i] ELSE Undefined

C8_Witness ==
    /\ Returned
    /\ Len(props.colors) = 5
    /\ meshes[5].color = props.colors[5]
    /\ meshes[6].color = Undefined

(***************************************************************************)
(* C9.                                                                     *)
(***************************************************************************)
InUnit(h) == Less(Zero, h) /\ Less(h, One)

\* C9 as stated: both heights lie in (0, 1), ACUTE.H within 1e-3 of 0.6180
\* and OBTUSE.H within 1e-3 of 0.3568
C9_StatedHeights ==
    /\ InUnit(ACUTE.H) /\ InUnit(OBTUSE.H)
    /\ Near(ACUTE.H, Decimal4(6180), Milli)
    /\ Near(OBTUSE.H, Decimal4(3568), Milli)

\* C9 amended: both heights lie in (0, 1), and ACUTE.H is within 1e-3 of
\* 0.8507; no value is stated for OBTUSE.H, which the code derives from the
\* AT of line 196 that departs from the comment of line 127 (see C1)
C9_ComputedHeights ==
    /\ InUnit(ACUTE.H) /\ InUnit(OBTUSE.H)
    /\ Near(ACUTE.H, Decimal4(8507), Milli)

C9_Witness ==
    /\ Returned
    /\ ACUTE = AcuteDims(BT)
    /\ OBTUSE = ObtuseDims(AT, X)
    /\ Less(Decimal4(8000), ACUTE.H)
    /\ ~Near(ACUTE.H, Decimal4(6180), Milli)
    /\ ~Near(OBTUSE.H, Decimal4(3568), Milli)

(***************************************************************************)
(* C10.                                                                    *)
(***************************************************************************)
\* C10: after any sequence of mesh generations the vertex tables are
\* unchanged and createFaces(variant) returns what it returned on its first
\* call for that variant
C10_TablesAndFacesStable ==
    /\ ACUTE_VERTICES = ACUTE_VERTICES_INIT
    /\ OBTUSE_VERTICES = OBTUSE_VERTICES_INIT
    /\ \A s \in ShapeValues :
           firstFaces[s] # <<>> => createFaces(s) = firstFaces[s]

C10_Witness ==
    /\ Returned
    /\ props.shape = "ACUTE"
    /\ props.scale = 1
    /\ \A s \in ShapeValues : firstFaces[s] # <<>>
    /\ \E f \in 1..6 : firstFaces["ACUTE"][f] # firstFaces["OBTUSE"][f]
    /\ faces = firstFaces["ACUTE"]
====
